---- MODULE Spec2Model ----
(***************************************************************************)
(* Model of DynamicModel_Package: the variable registry and the two Euler  *)
(* integrators of ModelBase.DynamicModel, and the nullcline registry and   *)
(* grid sampler of DynamicModel2D_Base.DynamicModel2D.                     *)
(*                                                                         *)
(* Numbers.  A float of the integrator is a fixed-point number: the tuple  *)
(* <<v>> stands for v / Scale, and <<>> is NaN (what pandas stores for a   *)
(* missing cell).  Sums are exact; a product is rounded down to a multiple *)
(* of 1 / Scale where the float would be rounded to the nearest double.    *)
(* The threshold 1e-14 of the clamp is far below 1 / Scale, so the values  *)
(* the comparison reads are decimals m * 10^e, compared exactly.           *)
(***************************************************************************)
EXTENDS Integers, Sequences, FiniteSets, TLC

VARIABLES
    variables,          \* self.variables: name -> derivative function, parameters
    calls,              \* history: the add_variable calls made, in order
    pc,                 \* where the running call is
    method,             \* which integrator was called
    passed,             \* history: variables_initial as the caller passed it
    variables_initial,  \* variables_initial as the integrator holds it
    t_final,            \* the integrator's t_final
    dt,                 \* the integrator's dt
    result_df,          \* the trajectory being built
    t,                  \* the integrator's local t (the loop variable)
    result_values,      \* the post-step row before it becomes a frame
    result_values_df,   \* the post-step frame the clamp works on
    variable_x,         \* DynamicModel2D.variable_x
    variable_y,         \* DynamicModel2D.variable_y
    nullclines,         \* DynamicModel2D.nullclines: name -> list of entries
    nullcline_calls,    \* history: the add_nullcline calls made, in order
    grid_args,          \* n_X, n_Y, Xlim, Ylim, t of create_meshgrid_derivatives
    Xv, Hv, Xdot, Ydot, \* the four grids of create_meshgrid_derivatives
    i, j                \* its loop indices

vars == <<variables, calls, pc, method, passed, variables_initial, t_final, dt,
          result_df, t, result_values, result_values_df, variable_x, variable_y,
          nullclines, nullcline_calls, grid_args, Xv, Hv, Xdot, Ydot, i, j>>

integratorVars == <<method, passed, variables_initial, t_final, dt, result_df, t>>
clampVars == <<result_values, result_values_df>>
model2DVars == <<variable_x, variable_y, nullclines, nullcline_calls>>
gridVars == <<grid_args, Xv, Hv, Xdot, Ydot, i, j>>

(***************************************************************************)
(* Bounds of the model.                                                    *)
(***************************************************************************)
MaxAdds == 2        \* add_variable calls before the integrator is called
MaxRows == 4        \* rows of a trajectory the model follows
MaxNullclines == 2  \* add_nullcline calls
MaxGrid == 3        \* largest n_X and n_Y

(***************************************************************************)
(* Fixed-point numbers with NaN.                                           *)
(***************************************************************************)
Scale == 10 ^ 1
NaN == <<>>
Num(v) == <<v>>
One == Num(Scale)
Zero == Num(0)

Add(a, b) == IF a = NaN \/ b = NaN THEN NaN ELSE Num(a[1] + b[1])
Mul(a, b) == IF a = NaN \/ b = NaN THEN NaN ELSE Num((a[1] * b[1]) \div Scale)
\* a plain Python number (a parameter) times a float
Times(k, a) == IF a = NaN THEN NaN ELSE Num(k * a[1])
\* every comparison with NaN is False
Lt(a, b) == a # NaN /\ b # NaN /\ a[1] < b[1]

(***************************************************************************)
(* Decimals m * 10^e and their exact order: the "<" of line 108.           *)
(***************************************************************************)
RECURSIVE Pow10(_)
Pow10(n) == IF n <= 0 THEN 1 ELSE 10 * Pow10(n - 1)

RECURSIVE Digits(_)
Digits(m) == IF m < 10 THEN 1 ELSE 1 + Digits(m \div 10)

Negated(a) == [m |-> 0 - a.m, e |-> a.e]

\* a < b for a.m > 0 and b.m > 0
MagLess(a, b) ==
    LET oa == Digits(a.m) + a.e
        ob == Digits(b.m) + b.e
        e  == IF a.e < b.e THEN a.e ELSE b.e
    IN  IF oa # ob THEN oa < ob
        ELSE a.m * Pow10(a.e - e) < b.m * Pow10(b.e - e)

Less(a, b) ==
    IF a.m <= 0 /\ b.m > 0 THEN TRUE
    ELSE IF a.m >= 0 /\ b.m <= 0 THEN FALSE
    ELSE IF a.m < 0 /\ b.m = 0 THEN TRUE
    ELSE IF a.m > 0 THEN MagLess(a, b)
    ELSE MagLess(Negated(b), Negated(a))

\* the fixed-point number <<v>> as a decimal
Dec(a) == [m |-> a[1], e |-> -1]
DecZero == [m |-> 0, e |-> 0]
\* 1e-14
Floor == [m |-> 1, e |-> -14]

\* faulty variant: the clamp read as a noise floor, |value| < 1e-14
BelowFloorMagnitude(d) ==
    Less(d, Floor) /\ Less(Negated(d), Floor)

\* result_values_df < 1e-14, for one cell
BelowFloor(d) == Less(d, Floor)

(***************************************************************************)
(* The variable registry.                                                  *)
(***************************************************************************)
\* faulty variant: the registry starts with a derivative of t that is 0
InitVariablesStill ==
    [n \in {"t"} |-> [derivative_function |-> "const", parameters |-> [c |-> 0]]]

\* self.variables after __init__
InitVariables ==
    [n \in {"t"} |-> [derivative_function |-> "one", parameters |-> <<>>]]

\* the derivative functions a caller registers, each with its parameters
Registrations ==
    { [derivative_function |-> "a_times_y", parameters |-> [a |-> 1]],
      [derivative_function |-> "minus_b_times_x", parameters |-> [b |-> 100]],
      [derivative_function |-> "const", parameters |-> [c |-> -1]],
      [derivative_function |-> "const", parameters |-> [c |-> 0]] }

Names == {"t", "x", "y"}

\* derivative_function(variable_values, parameters)
Apply(derivative_function, variable_values, parameters) ==
    CASE derivative_function = "one" -> One
      [] derivative_function = "a_times_y" ->
            Times(parameters.a, variable_values["y"])
      [] derivative_function = "minus_b_times_x" ->
            Times(0 - parameters.b, variable_values["x"])
      [] derivative_function = "const" -> Num(parameters.c * Scale)

\* faulty variant: a name already registered keeps its first entry
AddVariableKeepFirst(registry, name, entry) ==
    [n \in DOMAIN registry \cup {name} |->
        IF n \in DOMAIN registry THEN registry[n] ELSE entry]

\* self.variables[name] = {...}
AddVariable(registry, name, entry) ==
    [n \in DOMAIN registry \cup {name} |->
        IF n = name THEN entry ELSE registry[n]]

\* faulty variant: the derivative of t is taken as 0
compute_derivative_frozen_t(registry, variable_values) ==
    [v \in DOMAIN registry |->
        IF v = "t" THEN Zero
        ELSE Apply(registry[v].derivative_function, variable_values,
                   registry[v].parameters)]

compute_derivative(registry, variable_values) ==
    [v \in DOMAIN registry |->
        Apply(registry[v].derivative_function, variable_values,
              registry[v].parameters)]

(***************************************************************************)
(* Data frames: a column set and a list of rows, each row a mapping of     *)
(* every column to a number or NaN.                                        *)
(***************************************************************************)
\* pd.DataFrame(columns = ...)
EmptyFrame(columns) == [columns |-> columns, rows |-> <<>>]

\* faulty variant: a missing cell is filled with 0 instead of NaN
ConcatZeroFill(df, row) ==
    LET cols == df.columns \cup DOMAIN row
        Fill(r) == [c \in cols |-> IF c \in DOMAIN r THEN r[c] ELSE Zero]
        n == Len(df.rows)
    IN  [columns |-> cols,
         rows |-> [k \in 1..(n + 1) |->
                      IF k <= n THEN Fill(df.rows[k]) ELSE Fill(row)]]

\* pd.concat([df, pd.DataFrame(row, index = [0])], ignore_index = True):
\* the columns are the union, a cell a frame does not have is NaN
Concat(df, row) ==
    LET cols == df.columns \cup DOMAIN row
        Fill(r) == [c \in cols |-> IF c \in DOMAIN r THEN r[c] ELSE NaN]
        n == Len(df.rows)
    IN  [columns |-> cols,
         rows |-> [k \in 1..(n + 1) |->
                      IF k <= n THEN Fill(df.rows[k]) ELSE Fill(row)]]

\* result_df.iloc[-1].to_dict()
LastRow(df) == df.rows[Len(df.rows)]

(***************************************************************************)
(* One Euler step.                                                         *)
(***************************************************************************)
\* the registered names in a fixed order, for the faulty variant below
RECURSIVE InOrder(_, _)
InOrder(order, names) ==
    IF order = <<>> THEN <<>>
    ELSE IF Head(order) \in names
         THEN <<Head(order)>> \o InOrder(Tail(order), names)
         ELSE InOrder(Tail(order), names)

RECURSIVE SweepValues(_, _, _, _)
SweepValues(registry, values, step, todo) ==
    IF todo = <<>> THEN values
    ELSE LET v == Head(todo)
             d == Apply(registry[v].derivative_function, values,
                        registry[v].parameters)
             next == [values EXCEPT ![v] = Add(values[v], Mul(d, Num(step)))]
         IN  SweepValues(registry, next, step, Tail(todo))

\* faulty variant: a sequential sweep, each derivative evaluated on the
\* values already updated in this step
StepValuesSequential(registry, variable_values_t, step) ==
    LET swept == SweepValues(registry, variable_values_t, step,
                             InOrder(<<"t", "x", "y">>, DOMAIN registry))
    IN  [v \in DOMAIN registry |-> swept[v]]

\* faulty variant: the step is added without the derivative
StepValuesNoRate(registry, variable_values_t, step) ==
    [v \in DOMAIN registry |-> Add(variable_values_t[v], Num(step))]

\* derivatives = self.compute_derivative(variable_values_t)
\* result_values[variable] = variable_values_t[variable] + derivatives[variable]*dt
StepValues(registry, variable_values_t, step) ==
    LET derivatives == compute_derivative(registry, variable_values_t)
    IN  [v \in DOMAIN derivatives |->
            Add(variable_values_t[v], Mul(derivatives[v], Num(step)))]

\* result_values_df[result_values_df < 1e-14] = 0, on fixed-point cells
KeepPositive(row) ==
    [c \in DOMAIN row |->
        IF row[c] # NaN /\ BelowFloor(Dec(row[c])) THEN Zero ELSE row[c]]

\* result_values_df[result_values_df < 1e-14] = 0, on decimal cells
KeepPositiveDecimal(row) ==
    [c \in DOMAIN row |-> IF BelowFloor(row[c]) THEN DecZero ELSE row[c]]

(***************************************************************************)
(* Inputs of the integrators.                                              *)
(***************************************************************************)
InitialSnapshots ==
    { [n \in {"t", "x", "y"} |->
          IF n = "t" THEN Num(t0) ELSE IF n = "x" THEN Num(x0) ELSE Num(20)] :
          t0 \in {-3, 0}, x0 \in {10, -30} }
    \cup
    { [n \in {"x", "y"} |-> IF n = "x" THEN Num(x0) ELSE Num(20)] :
          x0 \in {10, -30} }

FinalTimes == {-1, 2, 3}
StepSizes == {-2, 0, 1, 2}

\* if 't' not in variables_initial.keys(): variables_initial['t'] = 0
DefaultTime(snapshot) ==
    IF "t" \in DOMAIN snapshot THEN snapshot
    ELSE [c \in DOMAIN snapshot \cup {"t"} |->
             IF c = "t" THEN Zero ELSE snapshot[c]]

\* faulty variant: the initial frame is built with missing cells as 0
InitialFrameZeroFill(registry, snapshot) ==
    ConcatZeroFill(EmptyFrame(DOMAIN registry), snapshot)

\* result_df = pd.DataFrame(columns = list(self.variables.keys()))
\* result_df = pd.concat([result_df, variables_initial_df], ignore_index=True)
InitialFrame(registry, snapshot) ==
    Concat(EmptyFrame(DOMAIN registry), snapshot)

(***************************************************************************)
(* The actions of a DynamicModel.                                          *)
(***************************************************************************)
add_variable(name, entry) ==
    /\ pc = "config"
    /\ Len(calls) < MaxAdds
    /\ variables' = AddVariable(variables, name, entry)
    /\ calls' = Append(calls, [name |-> name, entry |-> entry])
    /\ UNCHANGED <<pc, integratorVars, clampVars, model2DVars, gridVars>>

\* the lines of an integrator up to its loop; t = result_df['t'].values[-1]
\* raises KeyError when the frame has no column t
EnterLoop(name, snapshot, frame, tf, step) ==
    /\ method' = name
    /\ variables_initial' = snapshot
    /\ t_final' = tf
    /\ dt' = step
    /\ result_df' = frame
    /\ IF "t" \in frame.columns
       THEN t' = LastRow(frame)["t"] /\ pc' = "loop"
       ELSE t' = NaN /\ pc' = "KeyError"

euler_integrate_call(snapshot, tf, step) ==
    /\ pc = "config"
    /\ passed' = snapshot
    /\ EnterLoop("euler_integrate", DefaultTime(snapshot),
                 InitialFrame(variables, DefaultTime(snapshot)), tf, step)
    /\ UNCHANGED <<variables, calls, clampVars, model2DVars, gridVars>>

euler_integrate_step ==
    /\ pc = "loop"
    /\ method = "euler_integrate"
    /\ Lt(t, Num(t_final))
    /\ Len(result_df.rows) < MaxRows
    /\ LET variable_values_t == LastRow(result_df)
           values == StepValues(variables, variable_values_t, dt)
       IN  /\ t' = values["t"]
           /\ result_df' = Concat(result_df, values)
    /\ UNCHANGED <<variables, calls, pc, method, passed, variables_initial,
                   t_final, dt, clampVars, model2DVars, gridVars>>

euler_integrate_return ==
    /\ pc = "loop"
    /\ method = "euler_integrate"
    /\ ~Lt(t, Num(t_final))
    /\ pc' = "returned"
    /\ UNCHANGED <<variables, calls, integratorVars, clampVars, model2DVars,
                   gridVars>>

euler_integrate_keep_positive_call(snapshot, tf, step) ==
    /\ pc = "config"
    /\ passed' = snapshot
    /\ EnterLoop("euler_integrate_keep_positive", snapshot,
                 InitialFrame(variables, snapshot), tf, step)
    /\ UNCHANGED <<variables, calls, clampVars, model2DVars, gridVars>>

euler_integrate_keep_positive_step ==
    /\ pc = "loop"
    /\ method = "euler_integrate_keep_positive"
    /\ Lt(t, Num(t_final))
    /\ Len(result_df.rows) < MaxRows
    /\ LET variable_values_t == LastRow(result_df)
           values == StepValues(variables, variable_values_t, dt)
       IN  /\ t' = values["t"]
           /\ result_df' = Concat(result_df, KeepPositive(values))
    /\ UNCHANGED <<variables, calls, pc, method, passed, variables_initial,
                   t_final, dt, clampVars, model2DVars, gridVars>>

euler_integrate_keep_positive_return ==
    /\ pc = "loop"
    /\ method = "euler_integrate_keep_positive"
    /\ ~Lt(t, Num(t_final))
    /\ pc' = "returned"
    /\ UNCHANGED <<variables, calls, integratorVars, clampVars, model2DVars,
                   gridVars>>

IdleIntegrator ==
    /\ method = "none"
    /\ passed = <<>>
    /\ variables_initial = <<>>
    /\ t_final = 0
    /\ dt = 0
    /\ result_df = EmptyFrame({})
    /\ t = NaN

IdleClamp ==
    /\ result_values = <<>>
    /\ result_values_df = <<>>

Idle2D ==
    /\ variable_x = "x"
    /\ variable_y = "y"
    /\ nullclines = <<>>
    /\ nullcline_calls = <<>>

IdleGrid ==
    /\ grid_args = <<>>
    /\ Xv = <<>>
    /\ Hv = <<>>
    /\ Xdot = <<>>
    /\ Ydot = <<>>
    /\ i = 0
    /\ j = 0

Init ==
    /\ variables = InitVariables
    /\ calls = <<>>
    /\ pc = "config"
    /\ IdleIntegrator
    /\ IdleClamp
    /\ Idle2D
    /\ IdleGrid

Next ==
    \/ \E name \in Names, entry \in Registrations : add_variable(name, entry)
    \/ \E snapshot \in InitialSnapshots, tf \in FinalTimes, step \in StepSizes :
          euler_integrate_call(snapshot, tf, step)
    \/ euler_integrate_step
    \/ euler_integrate_return
    \/ \E snapshot \in InitialSnapshots, tf \in FinalTimes, step \in StepSizes :
          euler_integrate_keep_positive_call(snapshot, tf, step)
    \/ euler_integrate_keep_positive_step
    \/ euler_integrate_keep_positive_return

Spec == Init /\ [][Next]_vars

(***************************************************************************)
(* Properties of the registry and of the integrators, checked under Spec.  *)
(***************************************************************************)
Rows == result_df.rows
LastTime == LastRow(result_df)["t"]
CalledNames == {calls[k].name : k \in 1..Len(calls)}
LastCall(name) ==
    calls[CHOOSE k \in 1..Len(calls) :
            /\ calls[k].name = name
            /\ \A l \in (k + 1)..Len(calls) : calls[l].name # name]
DefaultTimeRate == variables["t"].derivative_function = "one"
NonPositiveTimeRate ==
    /\ variables["t"].derivative_function = "const"
    /\ variables["t"].parameters.c <= 0

\* C1: for both integrators, with step_size > 0, an initial t below t_final
\* (negative ones included) and the default derivative of t, the time of the
\* last row of the returned trajectory lies in [t_final, t_final + step_size).
C1_LastTimeWithinOneStep ==
    ( /\ pc = "returned"
      /\ dt > 0
      /\ "t" \in DOMAIN passed
      /\ Lt(passed["t"], Num(t_final))
      /\ DefaultTimeRate )
    => /\ ~Lt(LastTime, Num(t_final))
       /\ Lt(LastTime, Num(t_final + dt))

\* C2: in the trajectory of euler_integrate (step_size > 0, default derivative
\* of t) the first row's t is the initial t, and the t of every later row is
\* the t of the row before it plus exactly step_size, so t strictly increases.
C2_TimeGrowsByStep ==
    (method = "euler_integrate" /\ dt > 0 /\ DefaultTimeRate)
    => /\ Rows[1]["t"] = (IF "t" \in DOMAIN passed THEN passed["t"] ELSE Zero)
       /\ \A k \in 2..Len(Rows) :
             /\ Rows[k]["t"] = Add(Rows[k - 1]["t"], Num(dt))
             /\ Lt(Rows[k - 1]["t"], Rows[k]["t"])

C2_Witness ==
    /\ method = "euler_integrate"
    /\ dt > 0
    /\ DefaultTimeRate
    /\ pc = "returned"
    /\ Len(Rows) >= 3

\* C5 as claimed: without t in the initial snapshot euler_integrate starts
\* from t = 0, and euler_integrate_keep_positive fails with a KeyError where
\* t is first read and returns no trajectory.
C5_KeepPositiveRaisesKeyError ==
    (method # "none" /\ "t" \notin DOMAIN passed)
    => IF method = "euler_integrate"
       THEN Rows[1]["t"] = Zero
       ELSE pc = "KeyError"

\* C5 as amended: without t in the initial snapshot euler_integrate starts
\* from t = 0 and steps from there; euler_integrate_keep_positive raises
\* nothing: the column t exists because t is registered, the first row's t is
\* NaN, the loop condition is false at once, and the one-row trajectory is
\* returned.
C5_KeepPositiveReturnsNaNRow ==
    (method # "none" /\ "t" \notin DOMAIN passed)
    => IF method = "euler_integrate"
       THEN /\ Rows[1]["t"] = Zero
            /\ variables_initial["t"] = Zero
            /\ t = LastTime
            /\ \A k \in 2..Len(Rows) :
                  Rows[k]["t"] = StepValues(variables, Rows[k - 1], dt)["t"]
       ELSE /\ pc \in {"loop", "returned"}
            /\ t = NaN
            /\ Len(Rows) = 1
            /\ Rows[1]["t"] = NaN
            /\ \A c \in DOMAIN passed : Rows[1][c] = passed[c]

C5_Witness ==
    /\ method = "euler_integrate_keep_positive"
    /\ "t" \notin DOMAIN passed
    /\ pc = "returned"
    /\ Len(Rows) = 1
    /\ Lt(Zero, Num(t_final))

\* C6: each Euler step is simultaneous: every registered variable's new value
\* is its value in the last row plus step_size times its derivative, all
\* derivatives evaluated once on the whole last row. With dx/dt = a*y,
\* dy/dt = -b*x, a = 1, b = 100, from {t: 0, x: 1, y: 2} one step of 0.1
\* gives t = 0.1, x = 1.2, y = -8.0.
C6_SimultaneousStep ==
    (method = "euler_integrate")
    => /\ \A k \in 2..Len(Rows) :
             LET d == compute_derivative(variables, Rows[k - 1])
             IN  \A v \in DOMAIN variables :
                    Rows[k][v] = Add(Rows[k - 1][v], Mul(d[v], Num(dt)))
       /\ ( /\ Len(Rows) >= 2
            /\ DefaultTimeRate
            /\ "x" \in DOMAIN variables
            /\ "y" \in DOMAIN variables
            /\ variables["x"] = [derivative_function |-> "a_times_y",
                                 parameters |-> [a |-> 1]]
            /\ variables["y"] = [derivative_function |-> "minus_b_times_x",
                                 parameters |-> [b |-> 100]]
            /\ Rows[1] = [n \in {"t", "x", "y"} |->
                            IF n = "t" THEN Num(0)
                            ELSE IF n = "x" THEN Num(10) ELSE Num(20)]
            /\ dt = 1 )
          => Rows[2] = [n \in {"t", "x", "y"} |->
                          IF n = "t" THEN Num(1)
                          ELSE IF n = "x" THEN Num(12) ELSE Num(-80)]

C6_Witness ==
    /\ method = "euler_integrate"
    /\ Len(Rows) >= 2
    /\ dt = 1
    /\ DOMAIN variables = {"t", "x", "y"}
    /\ DefaultTimeRate
    /\ variables["x"].derivative_function = "a_times_y"
    /\ variables["y"].derivative_function = "minus_b_times_x"
    /\ Rows[1]["t"] = Num(0) /\ Rows[1]["x"] = Num(10) /\ Rows[1]["y"] = Num(20)
    /\ Rows[2]["x"] = Num(12) /\ Rows[2]["y"] = Num(-80)

C8_TimeRateAlwaysOne ==
    \A s \in InitialSnapshots : compute_derivative(variables, s)["t"] = One

\* C8 as amended: as long as no add_variable call was made with the name
\* 't', compute_derivative(snapshot)['t'] is 1 for every snapshot.
C8_TimeRateOneUnlessReregistered ==
    ("t" \notin CalledNames)
    => \A s \in InitialSnapshots : compute_derivative(variables, s)["t"] = One

C8_Witness ==
    /\ Len(calls) = MaxAdds
    /\ "t" \notin CalledNames
    /\ \A s \in InitialSnapshots : compute_derivative(variables, s)["t"] = One

\* C10 as claimed: in euler_integrate, with the initial t below t_final and
\* either step_size zero or the derivative of t overridden to a non-positive
\* value, the loop never halts: its condition stays true and it never returns.
C10_NeverHalts ==
    ( /\ method = "euler_integrate"
      /\ Lt(Rows[1]["t"], Num(t_final))
      /\ (dt = 0 \/ NonPositiveTimeRate) )
    => /\ pc # "returned"
       /\ Lt(t, Num(t_final))

\* C10 as amended: in euler_integrate, with the initial t below t_final, the
\* loop never halts when step_size is zero and the derivative of t has been a
\* number (not NaN) on every row so far, or when step_size is positive and
\* the derivative of t is overridden to a non-positive value.
C10_NeverHaltsForwardStep ==
    ( /\ method = "euler_integrate"
      /\ Lt(Rows[1]["t"], Num(t_final))
      /\ \/ /\ dt = 0
            /\ \A k \in 1..Len(Rows) :
                  compute_derivative(variables, Rows[k])["t"] # NaN
         \/ (dt > 0 /\ NonPositiveTimeRate) )
    => /\ pc # "returned"
       /\ Lt(t, Num(t_final))

\* the step_size = 0 case of C10, with the rows appended up to the bound
C10_WitnessZeroStep ==
    /\ method = "euler_integrate"
    /\ Lt(Rows[1]["t"], Num(t_final))
    /\ dt = 0
    /\ Len(Rows) = MaxRows
    /\ Lt(t, Num(t_final))

C10_Witness ==
    /\ method = "euler_integrate"
    /\ Lt(Rows[1]["t"], Num(t_final))
    /\ dt > 0
    /\ NonPositiveTimeRate
    /\ Len(Rows) = MaxRows
    /\ Lt(t, Num(t_final))

(***************************************************************************)
(* The clamp of euler_integrate_keep_positive on its own: a post-step row  *)
(* of decimals is made a frame and clamped.                                *)
(***************************************************************************)
Tiny == [m |-> 5, e |-> -15]            \* 5e-15
MinusThree == [m |-> -3, e |-> 0]       \* -3.0

PostStepValues ==
    { Tiny, MinusThree, DecZero, Floor,
      [m |-> -5, e |-> -15],            \* -5e-15
      [m |-> 2, e |-> -14],             \* 2e-14
      [m |-> 12, e |-> -1] }            \* 1.2

ClampInit ==
    /\ variables = InitVariables
    /\ calls = <<>>
    /\ pc = "stepped"
    /\ IdleIntegrator
    /\ result_values \in [{"t", "x", "y"} -> PostStepValues]
    /\ result_values_df = <<>>
    /\ Idle2D
    /\ IdleGrid

\* result_values_df = pd.DataFrame(result_values, index = [0])
make_result_values_df ==
    /\ pc = "stepped"
    /\ result_values_df' = result_values
    /\ pc' = "framed"
    /\ UNCHANGED <<variables, calls, integratorVars, result_values,
                   model2DVars, gridVars>>

\* result_values_df[result_values_df < 1e-14] = 0
clamp_result_values_df ==
    /\ pc = "framed"
    /\ result_values_df' = KeepPositiveDecimal(result_values_df)
    /\ pc' = "clamped"
    /\ UNCHANGED <<variables, calls, integratorVars, result_values,
                   model2DVars, gridVars>>

ClampNext == make_result_values_df \/ clamp_result_values_df

ClampSpec == ClampInit /\ [][ClampNext]_vars

\* C3 as claimed: the clamp is a noise floor only: a post-step value of
\* magnitude below 1e-14 (5e-15) is recorded as 0, and a meaningfully
\* negative post-step value (-3.0) is recorded unchanged.
C3_NoiseFloorOnly ==
    (pc = "clamped")
    => \A c \in DOMAIN result_values :
          /\ (result_values[c] = Tiny => result_values_df[c] = DecZero)
          /\ (result_values[c] = MinusThree
                 => result_values_df[c] = MinusThree)

\* C3 as amended: the clamp is a sign clamp: every post-step value below
\* 1e-14, the near-zero 5e-15 and the negative -3.0 alike, is recorded as
\* exactly 0, and a value of 1e-14 or more is recorded unchanged.
C3_SignClamp ==
    (pc = "clamped")
    => \A c \in DOMAIN result_values :
          /\ (result_values[c] = Tiny => result_values_df[c] = DecZero)
          /\ (result_values[c] = MinusThree => result_values_df[c] = DecZero)
          /\ result_values_df[c] =
                (IF Less(result_values[c], Floor) THEN DecZero
                 ELSE result_values[c])

C3_Witness ==
    /\ pc = "clamped"
    /\ result_values["t"] = [m |-> 12, e |-> -1]
    /\ result_values["x"] = Tiny
    /\ result_values["y"] = MinusThree
    /\ result_values_df["t"] = [m |-> 12, e |-> -1]
    /\ result_values_df["x"] = DecZero
    /\ result_values_df["y"] = DecZero

(***************************************************************************)
(* DynamicModel2D: construction, add_nullcline and the grid sampler.       *)
(***************************************************************************)
\* DynamicModel2D.add_variable: self.variables[name] = {..., 'axis': axis}
AddVariable2D(registry, name, entry, axis) ==
    [n \in DOMAIN registry \cup {name} |->
        IF n = name
        THEN [derivative_function |-> entry.derivative_function,
              parameters |-> entry.parameters,
              axis |-> axis]
        ELSE registry[n]]

NullclineNames == {"x", "y"}
NullclineEntries ==
    [nullcline_function : {"f1", "f2"}, parameters : {[k |-> 1]},
     y_fun_x : BOOLEAN]

\* faulty variant: a new entry replaces the list of its name
AddNullclineOverwrite(registry, name, mydict) ==
    [n \in DOMAIN registry \cup {name} |->
        IF n = name THEN <<mydict>> ELSE registry[n]]

\* if name in self.nullclines.keys(): self.nullclines[name].append(mydict)
\* else: self.nullclines[name] = [mydict]
AddNullcline(registry, name, mydict) ==
    IF name \in DOMAIN registry
    THEN [registry EXCEPT ![name] = Append(@, mydict)]
    ELSE [n \in DOMAIN registry \cup {name} |->
             IF n = name THEN <<mydict>> ELSE registry[n]]

\* np.linspace(lo, hi, n)[k]
Linspace(lo, hi, n, k) ==
    IF n = 1 THEN lo ELSE lo + (k * (hi - lo)) \div (n - 1)

\* np.meshgrid(xs, ys): both grids have len(ys) rows and len(xs) columns
MeshX(n_X, n_Y, Xlim) ==
    [r \in 0..(n_Y - 1) |->
        [c \in 0..(n_X - 1) |-> Num(Linspace(Xlim[1], Xlim[2], n_X, c))]]
MeshY(n_X, n_Y, Ylim) ==
    [r \in 0..(n_Y - 1) |->
        [c \in 0..(n_X - 1) |-> Num(Linspace(Ylim[1], Ylim[2], n_Y, r))]]

\* np.empty_like(grid): the same shape, every cell whatever the memory held
EmptyLike(grid, garbage) ==
    [r \in DOMAIN grid |-> [c \in DOMAIN grid[r] |-> garbage]]
Garbage == {Zero, Num(-7)}

\* grid[a, b] raises IndexError outside the grid
InGrid(grid, a, b) == a \in DOMAIN grid /\ b \in DOMAIN grid[a]

\* {'t': t, X_name: Xv[i,j], Y_name: Hv[i,j]}: a later key replaces an earlier
VarDict(time, X_name, x, Y_name, y) ==
    [n \in {"t", X_name, Y_name} |->
        IF n = Y_name THEN y ELSE IF n = X_name THEN x ELSE time]

Init2D ==
    /\ \E names \in {<<"x", "y">>, <<"y", "x">>} :
       \E entry_x \in { [derivative_function |-> "a_times_y",
                         parameters |-> [a |-> 1]],
                        [derivative_function |-> "const",
                         parameters |-> [c |-> 0]] } :
       \E entry_y \in { [derivative_function |-> "minus_b_times_x",
                         parameters |-> [b |-> 100]],
                        [derivative_function |-> "const",
                         parameters |-> [c |-> -1]] } :
          /\ variables = AddVariable2D(
                            AddVariable2D(InitVariables, names[1], entry_x, "x"),
                            names[2], entry_y, "y")
          /\ calls = << [name |-> names[1], entry |-> entry_x],
                        [name |-> names[2], entry |-> entry_y] >>
          /\ variable_x = names[1]
          /\ variable_y = names[2]
    /\ nullclines = <<>>
    /\ nullcline_calls = <<>>
    /\ pc = "ready"
    /\ IdleIntegrator
    /\ IdleClamp
    /\ IdleGrid

add_nullcline(name, mydict) ==
    /\ pc = "ready"
    /\ Len(nullcline_calls) < MaxNullclines
    /\ nullclines' = AddNullcline(nullclines, name, mydict)
    /\ nullcline_calls' = Append(nullcline_calls,
                                 [name |-> name, mydict |-> mydict])
    /\ UNCHANGED <<variables, calls, pc, integratorVars, clampVars,
                   variable_x, variable_y, gridVars>>

\* create_meshgrid_derivatives up to its loops
create_meshgrid_derivatives_call(n_X, n_Y, Xlim, Ylim, time) ==
    /\ pc = "ready"
    /\ grid_args' = [n_X |-> n_X, n_Y |-> n_Y, Xlim |-> Xlim, Ylim |-> Ylim,
                     t |-> time]
    /\ Xv' = MeshX(n_X, n_Y, Xlim)
    /\ Hv' = MeshY(n_X, n_Y, Ylim)
    /\ \E garbage \in Garbage :
          /\ Xdot' = EmptyLike(MeshX(n_X, n_Y, Xlim), garbage)
          /\ Ydot' = EmptyLike(MeshY(n_X, n_Y, Ylim), garbage)
    /\ i' = 0
    /\ j' = 0
    /\ pc' = "grid_loop"
    /\ UNCHANGED <<variables, calls, integratorVars, clampVars, model2DVars>>

\* one pass of the body of for i in range(n_X): for j in range(n_Y)
create_meshgrid_derivatives_step ==
    /\ pc = "grid_loop"
    /\ i < grid_args.n_X
    /\ IF InGrid(Xv, i, j) /\ InGrid(Hv, i, j)
       THEN LET var_dict == VarDict(grid_args.t, variable_x, Xv[i][j],
                                    variable_y, Hv[i][j])
                derivatives == compute_derivative(variables, var_dict)
            IN  /\ Ydot' = [Ydot EXCEPT ![i][j] = derivatives[variable_y]]
                /\ Xdot' = [Xdot EXCEPT ![i][j] = derivatives[variable_x]]
                /\ IF j + 1 < grid_args.n_Y
                   THEN i' = i /\ j' = j + 1
                   ELSE i' = i + 1 /\ j' = 0
                /\ pc' = pc
       ELSE /\ pc' = "IndexError"
            /\ UNCHANGED <<Xdot, Ydot, i, j>>
    /\ UNCHANGED <<variables, calls, integratorVars, clampVars, model2DVars,
                   grid_args, Xv, Hv>>

\* return Xv, Hv, Xdot, Ydot
create_meshgrid_derivatives_return ==
    /\ pc = "grid_loop"
    /\ i = grid_args.n_X
    /\ pc' = "grid_returned"
    /\ UNCHANGED <<variables, calls, integratorVars, clampVars, model2DVars,
                   gridVars>>

GridLimitsX == {<<0, 20>>}
GridLimitsY == {<<-10, 10>>}

Next2D ==
    \/ \E name \in NullclineNames, mydict \in NullclineEntries :
          add_nullcline(name, mydict)
    \/ \E n_X \in 1..MaxGrid, n_Y \in 1..MaxGrid :
       \E Xlim \in GridLimitsX, Ylim \in GridLimitsY :
          create_meshgrid_derivatives_call(n_X, n_Y, Xlim, Ylim, Zero)
    \/ create_meshgrid_derivatives_step
    \/ create_meshgrid_derivatives_return

Spec2D == Init2D /\ [][Next2D]_vars

(***************************************************************************)
(* Properties of DynamicModel2D, checked under Spec2D.                     *)
(***************************************************************************)
IsShape(grid, rows, columns) ==
    /\ DOMAIN grid = 0..(rows - 1)
    /\ \A r \in DOMAIN grid : DOMAIN grid[r] = 0..(columns - 1)

\* what the sampler is to record at cell (a, b)
CellDerivatives(a, b) ==
    compute_derivative(variables,
                       VarDict(grid_args.t, variable_x, Xv[a][b],
                               variable_y, Hv[a][b]))

\* C4: for every n_X >= 1 and n_Y >= 1, equal or not,
\* create_meshgrid_derivatives raises no index error and returns four grids
\* of shape n_X x n_Y with Xdot[i][j] and Ydot[i][j] the derivatives of the
\* x and the y variable at {t, x: X[i][j], y: Y[i][j]} for every cell.
C4_EveryCellSampled ==
    /\ pc # "IndexError"
    /\ (pc = "grid_returned")
       => /\ \A grid \in {Xv, Hv, Xdot, Ydot} :
                IsShape(grid, grid_args.n_X, grid_args.n_Y)
          /\ \A a \in 0..(grid_args.n_X - 1), b \in 0..(grid_args.n_Y - 1) :
                /\ Xdot[a][b] = CellDerivatives(a, b)[variable_x]
                /\ Ydot[a][b] = CellDerivatives(a, b)[variable_y]

\* the case C4 fails on: a grid with n_X # n_Y, entered
C4_Witness ==
    /\ pc = "IndexError"
    /\ grid_args.n_X # grid_args.n_Y

RECURSIVE EntriesFor(_, _)
EntriesFor(name, log) ==
    IF log = <<>> THEN <<>>
    ELSE IF Head(log).name = name
         THEN <<Head(log).mydict>> \o EntriesFor(name, Tail(log))
         ELSE EntriesFor(name, Tail(log))

NullclinesOf(registry, name) ==
    IF name \in DOMAIN registry THEN registry[name] ELSE <<>>

C9_AllRetainedInOrder ==
    /\ DOMAIN nullclines =
          {nullcline_calls[k].name : k \in 1..Len(nullcline_calls)}
    /\ \A name \in DOMAIN nullclines :
          nullclines[name] = EntriesFor(name, nullcline_calls)

C9_OneAppendOnly ==
    (nullcline_calls' # nullcline_calls)
    => LET call == nullcline_calls'[Len(nullcline_calls')]
       IN  /\ variables' = variables
           /\ nullclines'[call.name] =
                 Append(NullclinesOf(nullclines, call.name), call.mydict)
           /\ \A name \in NullclineNames \ {call.name} :
                 NullclinesOf(nullclines', name) = NullclinesOf(nullclines, name)

\* C9: after any add_nullcline calls, nullclines[name] holds exactly the
\* entries added for that name, all of them, in the order added; one call
\* appends one entry to its name's list and leaves every other name's list
\* and the variable registry unchanged.
C9_NullclinesAppendOnly ==
    []C9_AllRetainedInOrder /\ [][C9_OneAppendOnly]_vars

C9_Witness ==
    \E name \in DOMAIN nullclines :
        /\ Len(nullclines[name]) >= 2
        /\ nullclines[name][1] # nullclines[name][2]
        /\ nullclines[name][1] = nullcline_calls[1].mydict

====
